---- MODULE Spec2Model ----
(***************************************************************************)
(* Model of CollisionContact.resolve (Excalibur, engine/Collision).        *)
(*                                                                         *)
(* Numbers are JavaScript numbers.  They are modelled exactly as fractions *)
(* <<n, d>> in lowest terms with d > 0, extended with the three special    *)
(* IEEE values a division by zero produces: <<1, 0>> is +Infinity,         *)
(* <<-1, 0>> is -Infinity and <<0, 0>> is NaN.  Rounding is not modelled.  *)
(* A vector is a pair <<x, y>> of such numbers.                            *)
(***************************************************************************)
EXTENDS Integers, Sequences, FiniteSets, TLC

\* ------------------------------------------------------------------------
\* Bounds of the model
\* ------------------------------------------------------------------------

\* velocity components of body A range over -MaxSpeed..MaxSpeed
MaxSpeed == 1

\* ------------------------------------------------------------------------
\* JavaScript number arithmetic
\* ------------------------------------------------------------------------

AbsI(n) == IF n < 0 THEN -n ELSE n

SignI(n) == IF n < 0 THEN -1 ELSE IF n > 0 THEN 1 ELSE 0

RECURSIVE GCD(_, _)
GCD(a, b) == IF b = 0 THEN a ELSE GCD(b, a % b)

\* the number n/d; a zero denominator gives +Infinity, -Infinity or NaN
Num(n, d) ==
  IF d = 0 THEN <<SignI(n), 0>>
  ELSE LET g == GCD(AbsI(n), AbsI(d))
       IN  <<SignI(n) * SignI(d) * (AbsI(n) \div g), AbsI(d) \div g>>

Int2Num(i) == <<i, 1>>

Zero == <<0, 1>>

One == <<1, 1>>

Half == <<1, 2>>

NaN == <<0, 0>>

PosInf == <<1, 0>>

IsNaN(a) == a = NaN

IsFinite(a) == a[2] # 0

\* a + b; Infinity + -Infinity is NaN.  Finite operands are brought to
\* their least common denominator.
RAdd(a, b) ==
  IF a[2] = 0 /\ b[2] = 0
  THEN (IF a = b THEN a ELSE NaN)
  ELSE IF a[2] = 0 \/ b[2] = 0
  THEN Num(a[1] * b[2] + b[1] * a[2], 0)
  ELSE LET g == GCD(a[2], b[2])
       IN  Num(a[1] * (b[2] \div g) + b[1] * (a[2] \div g),
               (a[2] \div g) * b[2])

RNeg(a) == <<-a[1], a[2]>>

RSub(a, b) == RAdd(a, RNeg(b))

\* a * b; 0 * Infinity is NaN.  Finite operands are cancelled crosswise
\* before they are multiplied.
RMul(a, b) ==
  IF a[2] = 0 \/ b[2] = 0 \/ a[1] = 0 \/ b[1] = 0
  THEN Num(a[1] * b[1], a[2] * b[2])
  ELSE LET g1 == GCD(AbsI(a[1]), b[2])
           g2 == GCD(AbsI(b[1]), a[2])
       IN  Num((a[1] \div g1) * (b[1] \div g2),
               (a[2] \div g2) * (b[2] \div g1))

\* 1/b; 1/0 is +Infinity, 1/Infinity is 0
RInv(b) == IF b[1] < 0 THEN <<-b[2], -b[1]>> ELSE <<b[2], b[1]>>

RDiv(a, b) == RMul(a, RInv(b))

\* a < b; every comparison with NaN is false
RLt(a, b) ==
  IF IsNaN(a) \/ IsNaN(b) THEN FALSE
  ELSE IF a[2] = 0 /\ b[2] = 0 THEN a[1] < b[1]
  ELSE a[1] * b[2] < b[1] * a[2]

RLe(a, b) == ~IsNaN(a) /\ ~IsNaN(b) /\ (a = b \/ RLt(a, b))

RGt(a, b) == RLt(b, a)

\* Math.abs
RAbs(a) == <<AbsI(a[1]), a[2]>>

\* Math.min; NaN if either argument is NaN
RMin(a, b) == IF IsNaN(a) \/ IsNaN(b) THEN NaN ELSE IF RLt(b, a) THEN b ELSE a

\* exact integer square root; defined only for the perfect squares the
\* model's inputs produce
ISqrt(n) == CHOOSE k \in 0..n : k * k = n

\* Math.sqrt
RSqrt(a) ==
  IF IsNaN(a) \/ a[1] < 0 THEN NaN
  ELSE IF a[2] = 0 THEN PosInf
  ELSE <<ISqrt(a[1]), ISqrt(a[2])>>

\* JavaScript truthiness of a number: neither 0 nor NaN
Truthy(a) == a # Zero /\ ~IsNaN(a)

\* ------------------------------------------------------------------------
\* Vector (Algebra)
\* ------------------------------------------------------------------------

Vec(x, y) == <<Int2Num(x), Int2Num(y)>>

VAdd(v, w) == <<RAdd(v[1], w[1]), RAdd(v[2], w[2])>>

VSub(v, w) == <<RSub(v[1], w[1]), RSub(v[2], w[2])>>

VScale(v, s) == <<RMul(v[1], s), RMul(v[2], s)>>

VNegate(v) == VScale(v, Int2Num(-1))

VDot(v, w) == RAdd(RMul(v[1], w[1]), RMul(v[2], w[2]))

\* Vector.cross(Vector): the scalar x*v.y - y*v.x
VCross(v, w) == RSub(RMul(v[1], w[2]), RMul(v[2], w[1]))

\* Vector.cross(number): the vector (s*y, -s*x)
VCrossNum(v, s) == <<RMul(s, v[2]), RMul(RNeg(s), v[1])>>

VDistance(v) == RSqrt(RAdd(RMul(v[1], v[1]), RMul(v[2], v[2])))

\* Vector.normalize: the unit vector, or (0, 1) when the length is not > 0
VNormalize(v) ==
  LET d == VDistance(v)
  IN  IF RGt(d, Zero) THEN <<RDiv(v[1], d), RDiv(v[2], d)>> ELSE Vec(0, 1)

VPerpendicular(v) == <<v[2], RNeg(v[1])>>

\* Vector.normal: the normalized perpendicular
VNormal(v) == VNormalize(VPerpendicular(v))

\* ------------------------------------------------------------------------
\* Util, CollisionType, CollisionResolutionStrategy
\* ------------------------------------------------------------------------

CollisionType == {"Active", "Passive", "Fixed"}

\* the two strategies of the enumeration, and one value outside of it
CollisionResolutionStrategy == {"RigidBody", "Box"}

StrategyValues == CollisionResolutionStrategy \cup {"Other"}

Side == {"None", "Top", "Bottom", "Left", "Right"}

\* Util.getSideFromVector: the first of Left, Right, Up, Down whose dot
\* product with the direction is strictly the largest seen so far, starting
\* from -Number.MAX_VALUE
getSideFromVector(direction) ==
  LET dots  == <<RNeg(direction[1]), direction[1],
                 RNeg(direction[2]), direction[2]>>
      names == <<"Left", "Right", "Top", "Bottom">>
      \* d > -Number.MAX_VALUE
      AboveMin(d) == ~IsNaN(d) /\ d # RNeg(PosInf)
      Wins(i) == /\ AboveMin(dots[i])
                 /\ \A j \in 1..4 : AboveMin(dots[j]) =>
                       (IF j < i THEN RGt(dots[i], dots[j])
                                 ELSE RLe(dots[j], dots[i]))
  IN  IF \E i \in 1..4 : Wins(i)
      THEN names[CHOOSE i \in 1..4 : Wins(i)]
      ELSE "None"

getOppositeSide(side) ==
  CASE side = "Top"    -> "Bottom"
    [] side = "Bottom" -> "Top"
    [] side = "Left"   -> "Right"
    [] side = "Right"  -> "Left"
    [] OTHER           -> "None"

\* ------------------------------------------------------------------------
\* Events and Body
\* ------------------------------------------------------------------------

\* A world is the bodies and the events emitted so far.  An event records
\* its payload and, as seen, the bodies as its handler finds them through
\* the payload's references at the moment of the emit call.
emit(w, kind, self, other, side, vec) ==
  [w EXCEPT !.events = Append(@,
      [kind |-> kind, self |-> self, other |-> other,
       side |-> side, vec |-> vec, seen |-> w.bodies])]

\* Body.addMtv: accumulate the correction
addMtv(bodies, id, mtv) ==
  [bodies EXCEPT ![id].totalMtv = VAdd(@, mtv)]

\* ------------------------------------------------------------------------
\* CollisionContact: Box strategy
\* ------------------------------------------------------------------------

\* the guard of _applyBoxImpulse
boxImpulseApplies(bodyA, bodyB) ==
  bodyA.collisionType = "Active" /\ bodyB.collisionType # "Passive"

boxTranslation_NoSplit(bodyA, bodyB, mtv) == mtv

\* the translation applied to bodyA: split if both are Active
boxTranslation(bodyA, bodyB, mtv) ==
  IF bodyA.collisionType = "Active" /\ bodyB.collisionType = "Active"
  THEN VScale(mtv, Half)
  ELSE mtv

boxVelocity_Reflect(vel, mtv) ==
  LET mtvDir == VNormalize(mtv)
  IN  IF RLt(VDot(mtvDir, vel), Zero)
      THEN VAdd(vel, VScale(mtvDir, RMul(Int2Num(2), VDot(mtvDir, VNegate(vel)))))
      ELSE vel

\* the velocity of bodyA after cancelling its component opposite to mtv
boxVelocity(vel, mtv) ==
  LET mtvDir == VNormalize(mtv)
  IN  IF RLt(VDot(mtvDir, vel), Zero)
      THEN VAdd(vel, VScale(mtvDir, VDot(mtvDir, VNegate(vel))))
      ELSE vel

applyBoxImpulse(w, a, b, mtv0) ==
  LET bodyA == w.bodies[a]
      bodyB == w.bodies[b]
  IN  IF boxImpulseApplies(bodyA, bodyB)
      THEN LET mtv == boxTranslation(bodyA, bodyB, mtv0)
               w1  == [w EXCEPT !.bodies[a].pos = VAdd(bodyA.pos, mtv),
                                !.bodies[a].vel = boxVelocity(bodyA.vel, mtv)]
           IN  emit(w1, "postcollision", a, b, getSideFromVector(mtv), mtv)
      ELSE w

resolveBoxCollision_SameSide(w, c) ==
  LET side == getSideFromVector(c.mtv)
      mtv  == VNegate(c.mtv)
      w1   == emit(w, "precollision", c.a, c.b, side, mtv)
      w2   == emit(w1, "precollision", c.b, c.a, side, VNegate(mtv))
      w3   == applyBoxImpulse(w2, c.a, c.b, mtv)
  IN  applyBoxImpulse(w3, c.b, c.a, VNegate(mtv))

resolveBoxCollision(w, c) ==
  LET side == getSideFromVector(c.mtv)
      mtv  == VNegate(c.mtv)
      w1   == emit(w, "precollision", c.a, c.b, side, mtv)
      w2   == emit(w1, "precollision", c.b, c.a,
                   getOppositeSide(side), VNegate(mtv))
      w3   == applyBoxImpulse(w2, c.a, c.b, mtv)
  IN  applyBoxImpulse(w3, c.b, c.a, VNegate(mtv))

\* ------------------------------------------------------------------------
\* CollisionContact: RigidBody strategy
\* ------------------------------------------------------------------------

isPassivePair_OnlyA(bodyA, bodyB) == bodyA.collisionType = "Passive"

\* the short circuit: any of the participants is passive
isPassivePair(bodyA, bodyB) ==
  bodyA.collisionType = "Passive" \/ bodyB.collisionType = "Passive"

invMass(body, collider) ==
  IF body.collisionType = "Fixed" THEN Zero ELSE RDiv(One, collider.mass)

invMoi(body, collider) ==
  IF body.collisionType = "Fixed" THEN Zero ELSE RDiv(One, collider.moi)

coefRestitution_None(colliderA, colliderB) == Zero

coefRestitution(colliderA, colliderB) ==
  RMin(colliderA.restitution, colliderB.restitution)

coefFriction(colliderA, colliderB) ==
  RMin(colliderA.friction, colliderB.friction)

\* relative velocity of B with respect to A at the contact point
relativeVelocity(bodyA, bodyB, ra, rb) ==
  VSub(VAdd(bodyB.vel, VCrossNum(rb, RNeg(bodyB.rx))),
       VSub(bodyA.vel, VCrossNum(ra, bodyA.rx)))

\* the divisor of the collision impulse formula; imA, imB are the inverse
\* masses and iiA, iiB the inverse moments of inertia
impulseDenominator(imA, imB, iiA, iiB, raTangent, rbTangent) ==
  RAdd(RAdd(RAdd(imA, imB),
            RMul(RMul(iiA, raTangent), raTangent)),
       RMul(RMul(iiB, rbTangent), rbTangent))

normalImpulse_OnlyMassA(coefRest, rvNormal, imA, imB, iiA, iiB, raTangent, rbTangent) ==
  RDiv(RNeg(RMul(RAdd(One, coefRest), rvNormal)),
       RAdd(RAdd(imA, RMul(RMul(iiA, raTangent), raTangent)),
            RMul(RMul(iiB, rbTangent), rbTangent)))

\* collision impulse formula
normalImpulse(coefRest, rvNormal, imA, imB, iiA, iiB, raTangent, rbTangent) ==
  RDiv(RNeg(RMul(RAdd(One, coefRest), rvNormal)),
       impulseDenominator(imA, imB, iiA, iiB, raTangent, rbTangent))

\* impulse in the direction of the tangent force
tangentImpulse(rv, t, imA, imB, iiA, iiB, raNormal, rbNormal) ==
  RDiv(VDot(rv, t),
       RAdd(RAdd(RAdd(imA, imB),
                 RMul(RMul(raNormal, raNormal), iiA)),
            RMul(RMul(rbNormal, rbNormal), iiB)))

\* Coulomb clamp of the friction impulse
frictionImpulse(jt, impulse, coefFric, t) ==
  IF RLe(RAbs(jt), RMul(impulse, coefFric))
  THEN VNegate(VScale(t, jt))
  ELSE VScale(t, RMul(RNeg(impulse), coefFric))

\* inverse masses, inverse moments of inertia, combined coefficients
massTerms(bodyA, bodyB, colliderA, colliderB) ==
  [invMassA |-> invMass(bodyA, colliderA),
   invMassB |-> invMass(bodyB, colliderB),
   invMoiA |-> invMoi(bodyA, colliderA),
   invMoiB |-> invMoi(bodyB, colliderB),
   coefRestitution |-> coefRestitution(colliderA, colliderB),
   coefFriction |-> coefFriction(colliderA, colliderB)]

\* the tangent of the normalized normal, and the contact point relative to
\* each center
geometryOf(normal, point, centerA, centerB) ==
  [normal |-> normal,
   tangent |-> VNormalize(VNormal(normal)),
   ra |-> VSub(point, centerA),
   rb |-> VSub(point, centerB)]

geometryTerms(c, centerA, centerB) ==
  geometryOf(VNormalize(c.normal), c.point, centerA, centerB)

\* the projections of the relative velocity rv and of ra, rb, and the
\* direction t of the tangent force
velocityOf(rv, G) ==
  [rv |-> rv,
   rvNormal |-> VDot(rv, G.normal),
   rvTangent |-> VDot(rv, G.tangent),
   raTangent |-> VDot(G.ra, G.tangent),
   raNormal |-> VDot(G.ra, G.normal),
   rbTangent |-> VDot(G.rb, G.tangent),
   rbNormal |-> VDot(G.rb, G.normal),
   t |-> VNormalize(VSub(rv, VScale(G.normal, VDot(rv, G.normal))))]

velocityTerms(bodyA, bodyB, G) ==
  velocityOf(relativeVelocity(bodyA, bodyB, G.ra, G.rb), G)

\* the normal impulse and the tangent impulse
impulseTerms(M, V) ==
  [impulse |-> normalImpulse(M.coefRestitution, V.rvNormal,
                             M.invMassA, M.invMassB, M.invMoiA, M.invMoiB,
                             V.raTangent, V.rbTangent),
   jt |-> tangentImpulse(V.rv, V.t, M.invMassA, M.invMassB,
                         M.invMoiA, M.invMoiB, V.raNormal, V.rbNormal)]

termsOf(M, G, V, I) ==
  [invMassA |-> M.invMassA, invMassB |-> M.invMassB,
   invMoiA |-> M.invMoiA, invMoiB |-> M.invMoiB,
   coefRestitution |-> M.coefRestitution, coefFriction |-> M.coefFriction,
   normal |-> G.normal, tangent |-> G.tangent, ra |-> G.ra, rb |-> G.rb,
   rv |-> V.rv, rvNormal |-> V.rvNormal, rvTangent |-> V.rvTangent,
   impulse |-> I.impulse, t |-> V.t, jt |-> I.jt,
   denominator |-> impulseDenominator(M.invMassA, M.invMassB, M.invMoiA,
                                      M.invMoiB, V.raTangent, V.rbTangent),
   frictionImpulse |-> frictionImpulse(I.jt, I.impulse, M.coefFriction, V.t)]

termsWithVelocity(M, G, V) == termsOf(M, G, V, impulseTerms(M, V))

termsWithGeometry(bodyA, bodyB, M, G) ==
  termsWithVelocity(M, G, velocityTerms(bodyA, bodyB, G))

\* every local of _resolveRigidBodyCollision computed before a body is
\* written, for the bodies and colliders of contact c
contactTerms(bodies, colliders, c) ==
  termsWithGeometry(bodies[c.a], bodies[c.b],
    massTerms(bodies[c.a], bodies[c.b], colliders[c.a], colliders[c.b]),
    geometryTerms(c, colliders[c.a].center, colliders[c.b].center))

isSeparating_Never(rvNormal) == FALSE

\* the bodies are moving away from each other
isSeparating(rvNormal) == RGt(rvNormal, Zero)

\* the friction portion is applied
hasFriction(T) == Truthy(T.coefFriction) /\ Truthy(T.rvTangent)

applyNormalImpulse_AlwaysSplit(bodies, c, T, rot) ==
  LET nB  == VScale(T.normal, RMul(T.impulse, T.invMassB))
      nA  == VScale(T.normal, RMul(T.impulse, T.invMassA))
      b1  == [bodies EXCEPT ![c.b].vel = VAdd(@, nB), ![c.a].vel = VSub(@, nA)]
  IN  addMtv(addMtv(b1, c.b, VScale(c.mtv, Half)),
             c.a, VScale(c.mtv, RNeg(Half)))

\* normal impulse and positional correction, by which body is Fixed
applyNormalImpulse(bodies, c, T, rot) ==
  LET nB  == VScale(T.normal, RMul(T.impulse, T.invMassB))
      nA  == VScale(T.normal, RMul(T.impulse, T.invMassA))
      rxB == RMul(RMul(T.impulse, T.invMoiB), RNeg(VCross(T.rb, T.normal)))
      rxA == RMul(RMul(T.impulse, T.invMoiA), RNeg(VCross(T.ra, T.normal)))
  IN  IF bodies[c.a].collisionType = "Fixed"
      THEN LET b1 == [bodies EXCEPT ![c.b].vel = VAdd(@, nB)]
               b2 == IF rot THEN [b1 EXCEPT ![c.b].rx = RSub(@, rxB)] ELSE b1
           IN  addMtv(b2, c.b, c.mtv)
      ELSE IF bodies[c.b].collisionType = "Fixed"
      THEN LET b1 == [bodies EXCEPT ![c.a].vel = VSub(@, nA)]
               b2 == IF rot THEN [b1 EXCEPT ![c.a].rx = RAdd(@, rxA)] ELSE b1
           IN  addMtv(b2, c.a, VNegate(c.mtv))
      ELSE LET b1 == [bodies EXCEPT ![c.b].vel = VAdd(@, nB),
                                    ![c.a].vel = VSub(@, nA)]
               b2 == IF rot THEN [b1 EXCEPT ![c.b].rx = RSub(@, rxB),
                                            ![c.a].rx = RAdd(@, rxA)]
                            ELSE b1
           IN  addMtv(addMtv(b2, c.b, VScale(c.mtv, Half)),
                      c.a, VScale(c.mtv, RNeg(Half)))

\* frictional impulse, by which body is Fixed
applyFrictionImpulse(bodies, c, T, rot) ==
  LET fB  == VScale(T.frictionImpulse, T.invMassB)
      fA  == VScale(T.frictionImpulse, T.invMassA)
      ft  == VDot(T.frictionImpulse, T.t)
      rxB == RMul(RMul(ft, T.invMoiB), VCross(T.rb, T.t))
      rxA == RMul(RMul(ft, T.invMoiA), VCross(T.ra, T.t))
  IN  IF bodies[c.a].collisionType = "Fixed"
      THEN LET b1 == [bodies EXCEPT ![c.b].vel = VAdd(@, fB)]
           IN  IF rot THEN [b1 EXCEPT ![c.b].rx = RAdd(@, rxB)] ELSE b1
      ELSE IF bodies[c.b].collisionType = "Fixed"
      THEN LET b1 == [bodies EXCEPT ![c.a].vel = VSub(@, fA)]
           IN  IF rot THEN [b1 EXCEPT ![c.a].rx = RSub(@, rxA)] ELSE b1
      ELSE LET b1 == [bodies EXCEPT ![c.b].vel = VAdd(@, fB),
                                    ![c.a].vel = VSub(@, fA)]
           IN  IF rot THEN [b1 EXCEPT ![c.b].rx = RAdd(@, rxB),
                                      ![c.a].rx = RSub(@, rxA)]
                      ELSE b1

rigidBodyResponse_OverwriteMtv(w, c, T, rot, side) ==
  IF isSeparating(T.rvNormal)
  THEN w
  ELSE
    LET b0 == applyNormalImpulse(w.bodies, c, T, rot)
        b1 == [b0 EXCEPT ![c.a].totalMtv = VSub(@, w.bodies[c.a].totalMtv),
                         ![c.b].totalMtv = VSub(@, w.bodies[c.b].totalMtv)]
        b2 == IF hasFriction(T)
              THEN applyFrictionImpulse(b1, c, T, rot)
              ELSE b1
        w3 == [w EXCEPT !.bodies = b2]
        w4 == emit(w3, "postcollision", c.a, c.b, side, c.mtv)
    IN  emit(w4, "postcollision", c.b, c.a,
             getOppositeSide(side), VNegate(c.mtv))

\* the impulses and the post-collision events, given the locals T
rigidBodyResponse(w, c, T, rot, side) ==
  IF isSeparating(T.rvNormal)
  THEN w
  ELSE
    LET b1 == applyNormalImpulse(w.bodies, c, T, rot)
        b2 == IF hasFriction(T)
              THEN applyFrictionImpulse(b1, c, T, rot)
              ELSE b1
        w3 == [w EXCEPT !.bodies = b2]
        w4 == emit(w3, "postcollision", c.a, c.b, side, c.mtv)
    IN  emit(w4, "postcollision", c.b, c.a,
             getOppositeSide(side), VNegate(c.mtv))

\* the pre-collision events, then the passive short circuit
rigidBodyEvents(w, colliders, c, rot, side) ==
  LET w1 == emit(w, "precollision", c.a, c.b, side, c.mtv)
      w2 == emit(w1, "precollision", c.b, c.a,
                 getOppositeSide(side), VNegate(c.mtv))
  IN  IF isPassivePair(w.bodies[c.a], w.bodies[c.b])
      THEN w2
      ELSE rigidBodyResponse(w2, c, contactTerms(w.bodies, colliders, c),
                             rot, side)

resolveRigidBodyCollision(w, colliders, c, rot) ==
  IF c.a = c.b
  THEN w
  ELSE rigidBodyEvents(w, colliders, c, rot, getSideFromVector(c.mtv))

\* ------------------------------------------------------------------------
\* CollisionContact.resolve
\* ------------------------------------------------------------------------

resolveThrows_Never(strategy) == FALSE

\* resolve throws 'Unknown collision resolution strategy'
resolveThrows(strategy) == strategy # "RigidBody" /\ strategy # "Box"

resolve_StaleColliderA(w, colliders, c, strategy, rot) ==
  LET stale == [c EXCEPT !.a = IF c.b = 1 THEN c.a ELSE 1]
  IN  IF strategy = "RigidBody"
      THEN resolveRigidBodyCollision(w, colliders, stale, rot)
      ELSE IF strategy = "Box"
      THEN resolveBoxCollision(w, stale)
      ELSE w

\* the world after resolve(strategy) on contact c
resolve(w, colliders, c, strategy, rot) ==
  IF strategy = "RigidBody"
  THEN resolveRigidBodyCollision(w, colliders, c, rot)
  ELSE IF strategy = "Box"
  THEN resolveBoxCollision(w, c)
  ELSE w

\* ------------------------------------------------------------------------
\* State
\* ------------------------------------------------------------------------

VARIABLES
  bodies,                  \* id -> Body: collisionType, pos, vel, rx, totalMtv
  colliders,               \* id -> Collider: mass, moi, restitution, friction, center
  contacts,                \* the contacts of this tick not yet resolved
  strategy,                \* the strategy passed to resolve
  allowRigidBodyRotation,  \* Physics.allowRigidBodyRotation
  events,                  \* the events emitted so far
  fault,                   \* resolve has thrown
  calls                    \* the resolve calls made: contact, bodies and
                           \* number of events at entry

vars == <<bodies, colliders, contacts, strategy, allowRigidBodyRotation,
          events, fault, calls>>

\* ------------------------------------------------------------------------
\* Inputs
\* ------------------------------------------------------------------------

Speeds == (-MaxSpeed)..MaxSpeed

Body(type, pos, vel, rx) ==
  [collisionType |-> type, pos |-> pos, vel |-> vel, rx |-> rx,
   totalMtv |-> Vec(0, 0)]

Collider(mass, moi, restitution, friction, center) ==
  [mass |-> mass, moi |-> moi, restitution |-> restitution,
   friction |-> friction, center |-> center]

Contact(a, b, mtv, point, normal) ==
  [a |-> a, b |-> b, mtv |-> mtv, point |-> point, normal |-> normal]

\* mass, moment of inertia, restitution, friction of collider A
MaterialsA ==
  { <<One, One, One, Zero>>,
    <<One, One, Zero, Zero>>,
    <<Int2Num(2), Int2Num(2), Zero, Num(1, 8)>>,
    <<One, Int2Num(2), Half, Int2Num(2)>> }

\* velocity and angular velocity of body B
MotionsB == { <<Vec(0, 0), Zero>>, <<Vec(-1, 1), One>> }

\* mtv, point, normal of the contact: the normal is given by the narrow
\* phase independently of the mtv and need not be a unit vector
Geometries ==
  { <<Vec(2, 0),  Vec(2, 0), Vec(1, 0)>>,
    <<Vec(2, 0),  Vec(2, 1), Vec(2, 0)>>,
    <<Vec(0, -2), Vec(2, 1), Vec(0, -1)>>,
    <<Vec(3, 4),  Vec(2, 1), Vec(3, 4)>>,
    <<Vec(2, 0),  Vec(2, 0), Vec(0, 1)>> }

\* one contact between body 1 and body 2, or of body 1 with itself
Init ==
  /\ \E tA \in CollisionType, tB \in CollisionType,
        vx \in Speeds, vy \in Speeds, rxA \in {Zero, One},
        mB \in MotionsB, mat \in MaterialsA :
       /\ bodies = (1 :> Body(tA, Vec(0, 0), Vec(vx, vy), rxA)
                    @@ 2 :> Body(tB, Vec(4, 0), mB[1], mB[2]))
       /\ colliders = (1 :> Collider(mat[1], mat[2], mat[3], mat[4], Vec(0, 0))
                       @@ 2 :> Collider(One, One, One, Int2Num(2), Vec(4, 0)))
  /\ \E b \in {1, 2}, g \in Geometries :
       contacts = <<Contact(1, b, g[1], g[2], g[3])>>
  /\ strategy \in StrategyValues
  /\ allowRigidBodyRotation \in BOOLEAN
  /\ events = <<>>
  /\ fault = FALSE
  /\ calls = <<>>

\* ------------------------------------------------------------------------
\* Actions
\* ------------------------------------------------------------------------

Remove(seq, i) == [j \in 1..(Len(seq) - 1) |-> IF j < i THEN seq[j] ELSE seq[j + 1]]

Call(c) == [contact |-> c, bodies |-> bodies, nEvents |-> Len(events)]

\* the bodies and events become those of the world w
Becomes(w) == bodies' = w.bodies /\ events' = w.events

\* the tick loop resolves one of the pending contacts
Resolve(i) ==
  /\ ~fault
  /\ i \in DOMAIN contacts
  /\ ~resolveThrows(strategy)
  /\ Becomes(resolve([bodies |-> bodies, events |-> events], colliders,
                     contacts[i], strategy, allowRigidBodyRotation))
  /\ contacts' = Remove(contacts, i)
  /\ calls' = Append(calls, Call(contacts[i]))
  /\ UNCHANGED <<colliders, strategy, allowRigidBodyRotation, fault>>

\* resolve throws on an unknown strategy, which ends the tick
ResolveFault(i) ==
  /\ ~fault
  /\ i \in DOMAIN contacts
  /\ resolveThrows(strategy)
  /\ fault' = TRUE
  /\ calls' = Append(calls, Call(contacts[i]))
  /\ UNCHANGED <<bodies, colliders, contacts, strategy,
                 allowRigidBodyRotation, events>>

Next ==
  \/ \E i \in DOMAIN contacts : Resolve(i)
  \/ \E i \in DOMAIN contacts : ResolveFault(i)

Spec == Init /\ [][Next]_vars

\* mtv, point, normal of the second contact of a tick
GeometriesTick ==
  { <<Vec(0, 2), Vec(4, 2), Vec(0, 1)>>,
    <<Vec(3, 4), Vec(5, 2), Vec(3, 4)>> }

\* the second contact of a tick: of bodies 3 and 4, disjoint from the
\* first, or of bodies 2 and 3, sharing body 2 with it
PairsTick == { <<3, 4>>, <<2, 3>> }

\* the vertical speeds of body 3 in a tick whose second contact is c:
\* upwards, away from body 2, and for the axis-aligned contact also
\* downwards, towards it
SpeedsTick(c) == IF c.normal = Vec(0, 1) THEN {-1, 1} ELSE {1}

\* a tick of two contacts among four bodies
InitTick ==
  /\ \E p \in PairsTick, g \in GeometriesTick :
       contacts = <<Contact(1, 2, Vec(2, 0), Vec(2, 0), Vec(1, 0)),
                    Contact(p[1], p[2], g[1], g[2], g[3])>>
  /\ \E t1 \in CollisionType, t2 \in {"Active", "Fixed"}, t3 \in CollisionType,
        vx \in Speeds, vy \in Speeds, vy3 \in SpeedsTick(contacts[2]) :
       bodies = (1 :> Body(t1, Vec(0, 0), Vec(vx, vy), Zero)
                 @@ 2 :> Body(t2, Vec(4, 0), Vec(0, 0), One)
                 @@ 3 :> Body(t3, Vec(4, 4), Vec(-1, vy3), Zero)
                 @@ 4 :> Body("Active", Vec(8, 4), Vec(-1, -1), Zero))
  /\ colliders = (1 :> Collider(One, One, Zero, Num(1, 8), Vec(0, 0))
                  @@ 2 :> Collider(Int2Num(2), One, One, Int2Num(2), Vec(4, 0))
                  @@ 3 :> Collider(One, Int2Num(2), Half, Int2Num(2), Vec(4, 4))
                  @@ 4 :> Collider(One, One, One, Half, Vec(8, 4)))
  /\ strategy \in StrategyValues
  /\ allowRigidBodyRotation \in BOOLEAN
  /\ events = <<>>
  /\ fault = FALSE
  /\ calls = <<>>

SpecTick == InitTick /\ [][Next]_vars

\* ------------------------------------------------------------------------
\* What a resolve call did
\* ------------------------------------------------------------------------

\* the bodies when call k returned
After(k) == IF k < Len(calls) THEN calls[k + 1].bodies ELSE bodies

\* the events emitted by call k, in order
EventsOf(k) ==
  SubSeq(events, calls[k].nEvents + 1,
         IF k < Len(calls) THEN calls[k + 1].nEvents ELSE Len(events))

\* call k threw
Threw(k) == fault /\ k = Len(calls)

\* position, velocity, angular velocity and accumulated correction of body
\* id are the same after call k as before it
BodyUnchanged(k, id) ==
  /\ After(k)[id].pos = calls[k].bodies[id].pos
  /\ After(k)[id].vel = calls[k].bodies[id].vel
  /\ After(k)[id].rx = calls[k].bodies[id].rx
  /\ After(k)[id].totalMtv = calls[k].bodies[id].totalMtv

TypeA(k) == calls[k].bodies[calls[k].contact.a].collisionType

TypeB(k) == calls[k].bodies[calls[k].contact.b].collisionType

SelfPair(k) == calls[k].contact.a = calls[k].contact.b

HasPassive(k) == TypeA(k) = "Passive" \/ TypeB(k) = "Passive"

\* the events of call k of one kind delivered to one participant
EventsTo(k, kind, id) ==
  SelectSeq(EventsOf(k), LAMBDA e : e.kind = kind /\ e.self = id)

\* event eB is the mirror of event eA
Mirror(eA, eB) ==
  /\ eB.kind = eA.kind
  /\ eB.self = eA.other
  /\ eB.other = eA.self
  /\ eB.side = getOppositeSide(eA.side)
  /\ eB.vec = VNegate(eA.vec)

\* the locals of the RigidBody resolution of call k
TermsOf(k) == contactTerms(calls[k].bodies, colliders, calls[k].contact)

\* ------------------------------------------------------------------------
\* C1
\* ------------------------------------------------------------------------

\* C1: resolve called with a strategy other than Box or RigidBody throws,
\* emits no event and changes no body.
C1_UnknownStrategyFaults ==
  \A k \in DOMAIN calls :
    strategy \notin CollisionResolutionStrategy =>
      /\ Threw(k)
      /\ EventsOf(k) = <<>>
      /\ \A id \in DOMAIN bodies : BodyUnchanged(k, id)

C1_Witness ==
  /\ calls # <<>>
  /\ strategy = "Other"
  /\ bodies[1].collisionType = "Active"
  /\ bodies[2].collisionType = "Active"

\* ------------------------------------------------------------------------
\* C2
\* ------------------------------------------------------------------------

\* C2: when at least one body of the contact is Passive, resolve under
\* RigidBody or Box leaves both bodies' position, velocity, angular velocity
\* and accumulated correction unchanged.
C2_PassiveUnchanged ==
  \A k \in DOMAIN calls :
    (strategy \in CollisionResolutionStrategy /\ HasPassive(k)) =>
      /\ BodyUnchanged(k, calls[k].contact.a)
      /\ BodyUnchanged(k, calls[k].contact.b)

\* an Active body moving into a Passive one
C2_Witness ==
  \E k \in DOMAIN calls :
    /\ ~Threw(k)
    /\ ~SelfPair(k)
    /\ TypeA(k) = "Active"
    /\ TypeB(k) = "Passive"
    /\ strategy = "RigidBody"
    /\ RLt(TermsOf(k).rvNormal, Zero)

\* ------------------------------------------------------------------------
\* C3
\* ------------------------------------------------------------------------

\* C3 as stated: for a non-self contact with a Passive body, RigidBody
\* resolution emits the pre-collision and the post-collision event to each
\* participant.
C3_Original ==
  \A k \in DOMAIN calls :
    (strategy = "RigidBody" /\ ~SelfPair(k) /\ HasPassive(k)) =>
      \A id \in {calls[k].contact.a, calls[k].contact.b} :
        /\ Len(EventsTo(k, "precollision", id)) = 1
        /\ Len(EventsTo(k, "postcollision", id)) = 1

\* C3 amended: for a non-self contact with a Passive body, RigidBody
\* resolution emits the pre-collision event to each participant and no
\* post-collision event.
C3_PassivePreOnly ==
  \A k \in DOMAIN calls :
    (strategy = "RigidBody" /\ ~SelfPair(k) /\ HasPassive(k)) =>
      /\ Len(EventsOf(k)) = 2
      /\ \A id \in {calls[k].contact.a, calls[k].contact.b} :
           /\ Len(EventsTo(k, "precollision", id)) = 1
           /\ Len(EventsTo(k, "postcollision", id)) = 0

\* a Passive body hit by an approaching Active one
C3_Witness ==
  \E k \in DOMAIN calls :
    /\ strategy = "RigidBody"
    /\ ~SelfPair(k)
    /\ TypeA(k) = "Passive"
    /\ TypeB(k) = "Active"
    /\ RLt(TermsOf(k).rvNormal, Zero)
    /\ Len(EventsOf(k)) = 2

\* ------------------------------------------------------------------------
\* C4
\* ------------------------------------------------------------------------

\* the correction body id accumulated during call k
Correction(k, id) ==
  VSub(After(k)[id].totalMtv, calls[k].bodies[id].totalMtv)

\* call k is a RigidBody resolution of one Fixed and one Active body
FixedActive(k) ==
  /\ strategy = "RigidBody"
  /\ {TypeA(k), TypeB(k)} = {"Fixed", "Active"}

\* C4: in a RigidBody resolution of one Fixed and one Active body the Fixed
\* body's velocity, angular velocity and accumulated correction are
\* unchanged, and when a correction is accumulated the Active body receives
\* the entire MTV: B the mtv, A its negation.
C4_FixedActive ==
  \A k \in DOMAIN calls :
    FixedActive(k) =>
      LET c      == calls[k].contact
          fixed  == IF TypeA(k) = "Fixed" THEN c.a ELSE c.b
          active == IF TypeA(k) = "Fixed" THEN c.b ELSE c.a
          full   == IF active = c.b THEN c.mtv ELSE VNegate(c.mtv)
      IN  /\ BodyUnchanged(k, fixed)
          /\ Correction(k, active) \in {Vec(0, 0), full}
          /\ ~isSeparating(TermsOf(k).rvNormal) => Correction(k, active) = full

\* Fixed A, Active B, rotation enabled, friction applied, correction made
C4_Witness ==
  \E k \in DOMAIN calls :
    /\ FixedActive(k)
    /\ TypeA(k) = "Fixed"
    /\ allowRigidBodyRotation
    /\ hasFriction(TermsOf(k))
    /\ Correction(k, calls[k].contact.b) = calls[k].contact.mtv
    /\ After(k)[calls[k].contact.b].rx # calls[k].bodies[calls[k].contact.b].rx

\* ------------------------------------------------------------------------
\* C5
\* ------------------------------------------------------------------------

\* C5: a contact of a body with itself resolves as a no-op under every
\* strategy: no event is emitted and the body is unchanged.
C5_SelfPairNoOp ==
  \A k \in DOMAIN calls :
    SelfPair(k) =>
      /\ EventsOf(k) = <<>>
      /\ BodyUnchanged(k, calls[k].contact.a)

\* ------------------------------------------------------------------------
\* C6
\* ------------------------------------------------------------------------

\* the change of position of body id during call k
Moved(k, id) == VSub(After(k)[id].pos, calls[k].bodies[id].pos)

\* C6: under Box, two distinct Active bodies move by half the MTV each, A
\* by -mtv/2 and B by +mtv/2; an Active body paired with a Fixed one moves
\* by the full MTV (A by -mtv, B by +mtv) and the Fixed body's position and
\* velocity are unchanged.
C6_BoxPositions ==
  \A k \in DOMAIN calls :
    (strategy = "Box" /\ ~SelfPair(k)) =>
      LET c == calls[k].contact
      IN  /\ (TypeA(k) = "Active" /\ TypeB(k) = "Active") =>
                /\ Moved(k, c.a) = VScale(c.mtv, RNeg(Half))
                /\ Moved(k, c.b) = VScale(c.mtv, Half)
          /\ (TypeA(k) = "Active" /\ TypeB(k) = "Fixed") =>
                /\ Moved(k, c.a) = VNegate(c.mtv)
                /\ Moved(k, c.b) = Vec(0, 0)
                /\ After(k)[c.b].vel = calls[k].bodies[c.b].vel
          /\ (TypeA(k) = "Fixed" /\ TypeB(k) = "Active") =>
                /\ Moved(k, c.b) = c.mtv
                /\ Moved(k, c.a) = Vec(0, 0)
                /\ After(k)[c.a].vel = calls[k].bodies[c.a].vel

\* two distinct Active bodies separated by an oblique MTV
C6_Witness ==
  \E k \in DOMAIN calls :
    /\ strategy = "Box"
    /\ ~SelfPair(k)
    /\ TypeA(k) = "Active"
    /\ TypeB(k) = "Active"
    /\ calls[k].contact.mtv = Vec(3, 4)
    /\ Moved(k, calls[k].contact.b) = <<Num(3, 2), Int2Num(2)>>

\* ------------------------------------------------------------------------
\* C7
\* ------------------------------------------------------------------------

\* C7: within one resolve call every pre-collision event is emitted before
\* any mutation of either body, and every post-collision event after all
\* mutations of both bodies: a pre-collision handler finds the bodies as
\* they were at entry, a post-collision handler as they are at return.
\* Stated for the contacts of two distinct bodies.
C7_EventOrder ==
  \A k \in DOMAIN calls :
    \A i \in DOMAIN (IF SelfPair(k) THEN <<>> ELSE EventsOf(k)) :
      LET e == EventsOf(k)[i]
      IN  /\ e.kind = "precollision" =>
               /\ e.seen[e.self] = calls[k].bodies[e.self]
               /\ e.seen[e.other] = calls[k].bodies[e.other]
          /\ e.kind = "postcollision" =>
               /\ e.seen[e.self] = After(k)[e.self]
               /\ e.seen[e.other] = After(k)[e.other]

\* ------------------------------------------------------------------------
\* C8
\* ------------------------------------------------------------------------

FrictionApplied(k) ==
  /\ strategy = "RigidBody"
  /\ ~SelfPair(k)
  /\ ~HasPassive(k)
  /\ ~isSeparating(TermsOf(k).rvNormal)
  /\ hasFriction(TermsOf(k))

\* C10: whenever RigidBody resolution applies a friction impulse, its
\* magnitude is at most |normal impulse| * combined friction coefficient,
\* for every combination of non-Passive kinematic classes.
C10_CoulombClamp ==
  \A k \in DOMAIN calls :
    FrictionApplied(k) =>
      RLe(VDistance(TermsOf(k).frictionImpulse),
          RMul(RAbs(TermsOf(k).impulse), TermsOf(k).coefFriction))

\* ------------------------------------------------------------------------
\* C9
\* ------------------------------------------------------------------------

\* the tick is over: every contact was resolved
TickDone == contacts = <<>> /\ ~fault /\ calls # <<>>

\* no body appears in two of the contacts resolved
PairwiseDisjoint ==
  \A j, k \in DOMAIN calls :
    j # k => {calls[j].contact.a, calls[j].contact.b}
               \cap {calls[k].contact.a, calls[k].contact.b} = {}

\* the bodies after resolving the contacts of the calls order[1],
\* order[2], ... in that order, starting from the bodies bs
RECURSIVE ResolveInOrder(_, _)
ResolveInOrder(bs, order) ==
  IF order = <<>> THEN bs
  ELSE ResolveInOrder(
         resolve([bodies |-> bs, events |-> <<>>], colliders,
                 calls[Head(order)].contact, strategy,
                 allowRigidBodyRotation).bodies,
         Tail(order))

\* the orders in which the contacts of the tick can be resolved
Orders ==
  { o \in [DOMAIN calls -> DOMAIN calls] :
      \A j, k \in DOMAIN calls : j # k => o[j] # o[k] }

\* C9: resolving contacts of pairwise disjoint body pairs yields the same
\* final bodies whatever the order in which the contacts are resolved.
C9_DisjointPairsCommute ==
  (TickDone /\ PairwiseDisjoint) =>
    \A o \in Orders : ResolveInOrder(calls[1].bodies, o) = bodies

\* two disjoint contacts were resolved and each changed a body
C9_Witness ==
  /\ TickDone
  /\ PairwiseDisjoint
  /\ Len(calls) = 2
  /\ strategy = "RigidBody"
  /\ \A k \in DOMAIN calls : ~BodyUnchanged(k, calls[k].contact.b)

\* ------------------------------------------------------------------------
\* C11
\* ------------------------------------------------------------------------

\* the locals of a RigidBody resolution of the contact of call k, computed
\* from the bodies as call k left them
PostTermsOf(k) == contactTerms(After(k), colliders, calls[k].contact)

\* call k is a RigidBody resolution of two distinct Active bodies
ActivePair(k) ==
  /\ strategy = "RigidBody"
  /\ ~SelfPair(k)
  /\ TypeA(k) = "Active"
  /\ TypeB(k) = "Active"

\* call k is a RigidBody resolution of two Active bodies with combined
\* restitution 0 and combined friction 0
Inelastic(k) ==
  /\ ActivePair(k)
  /\ TermsOf(k).coefRestitution = Zero
  /\ TermsOf(k).coefFriction = Zero

\* C11 as stated: for two Active bodies with combined restitution 0 and
\* combined friction 0, the relative normal velocity at the contact point
\* is <= 0 after RigidBody resolution.
C11_Original ==
  \A k \in DOMAIN calls :
    Inelastic(k) => RLe(PostTermsOf(k).rvNormal, Zero)

\* C11 amended: the same, for a contact whose relative normal velocity was
\* <= 0 before the resolution; with rotation enabled it is exactly 0
\* afterwards.
C11_NoResidualApproach ==
  \A k \in DOMAIN calls :
    (Inelastic(k) /\ ~isSeparating(TermsOf(k).rvNormal)) =>
      /\ RLe(PostTermsOf(k).rvNormal, Zero)
      /\ allowRigidBodyRotation => PostTermsOf(k).rvNormal = Zero

\* an approaching off-centre contact, resolved with rotation enabled
C11_Witness ==
  \E k \in DOMAIN calls :
    /\ Inelastic(k)
    /\ allowRigidBodyRotation
    /\ RLt(TermsOf(k).rvNormal, Zero)
    /\ VDot(TermsOf(k).ra, TermsOf(k).tangent) # Zero
    /\ PostTermsOf(k).rvNormal = Zero

\* ------------------------------------------------------------------------
\* C12
\* ------------------------------------------------------------------------

\* call k is a RigidBody resolution of an approaching contact of two Active
\* bodies of equal mass, restitution 1 on both colliders, no friction
ElasticEqualMass(k) ==
  /\ ActivePair(k)
  /\ colliders[calls[k].contact.a].mass = colliders[calls[k].contact.b].mass
  /\ colliders[calls[k].contact.a].restitution = One
  /\ colliders[calls[k].contact.b].restitution = One
  /\ TermsOf(k).coefFriction = Zero
  /\ RLt(TermsOf(k).rvNormal, Zero)

\* the two bodies exchanged their velocity components along the normal
NormalVelocitiesSwapped(k) ==
  LET c == calls[k].contact
      n == TermsOf(k).normal
  IN  /\ VDot(After(k)[c.a].vel, n) = VDot(calls[k].bodies[c.b].vel, n)
      /\ VDot(After(k)[c.b].vel, n) = VDot(calls[k].bodies[c.a].vel, n)

\* the contact point lies on the line along the normal through each centre
CentralContact(k) ==
  /\ VDot(TermsOf(k).ra, TermsOf(k).tangent) = Zero
  /\ VDot(TermsOf(k).rb, TermsOf(k).tangent) = Zero

\* C12 as stated: for two Active bodies of equal mass with restitution 1
\* and no friction, RigidBody resolution of an approaching contact
\* exchanges the bodies' velocity components along the normal, for every
\* contact point.
C12_Original ==
  \A k \in DOMAIN calls : ElasticEqualMass(k) => NormalVelocitiesSwapped(k)

\* C12 amended: the same, for every contact point that lies on the line
\* along the normal through both centres (ra and rb have no tangential
\* component).
C12_CentralSwap ==
  \A k \in DOMAIN calls :
    (ElasticEqualMass(k) /\ CentralContact(k)) => NormalVelocitiesSwapped(k)

\* a central elastic contact that changed both velocities
C12_Witness ==
  \E k \in DOMAIN calls :
    /\ ElasticEqualMass(k)
    /\ CentralContact(k)
    /\ NormalVelocitiesSwapped(k)
    /\ After(k)[calls[k].contact.a].vel # calls[k].bodies[calls[k].contact.a].vel
    /\ calls[k].bodies[calls[k].contact.a].rx # Zero

\* ------------------------------------------------------------------------
\* C13
\* ------------------------------------------------------------------------

\* call k computes the collision impulse
ImpulseComputed(k) ==
  /\ strategy = "RigidBody"
  /\ ~SelfPair(k)
  /\ ~HasPassive(k)
  /\ ~isSeparating(TermsOf(k).rvNormal)

\* C13: in RigidBody resolution a Fixed body never has its velocity or
\* angular velocity changed and never accumulates positional correction,
\* whatever the class of the other body (so a contact of two Fixed bodies
\* leaves both unchanged), and the divisor of the impulse is not zero when
\* the impulse is computed.
C13_FixedNeverChanges ==
  \A k \in DOMAIN calls :
    (strategy = "RigidBody" /\ ~SelfPair(k)) =>
      /\ \A id \in {calls[k].contact.a, calls[k].contact.b} :
           calls[k].bodies[id].collisionType = "Fixed" => BodyUnchanged(k, id)
      /\ ImpulseComputed(k) => TermsOf(k).denominator # Zero

\* ------------------------------------------------------------------------
\* C14
\* ------------------------------------------------------------------------

\* event i of call k reports a body moved by the Box strategy
BoxMove(k, i) ==
  /\ strategy = "Box"
  /\ i \in 2..Len(EventsOf(k))
  /\ EventsOf(k)[i].kind = "postcollision"

\* the velocity of the body moved at event i of call k, before the move
VelBefore(k, i) == EventsOf(k)[i - 1].seen[EventsOf(k)[i].self].vel

\* the velocity of the body moved at event i of call k, after the move
VelAfter(k, i) == EventsOf(k)[i].seen[EventsOf(k)[i].self].vel

\* the direction of the translation applied at event i of call k
MoveDir(k, i) == VNormalize(EventsOf(k)[i].vec)

\* C14: under Box, for each body that is moved: if its velocity had a
\* component opposite to the translation applied to it, that component is
\* removed, so that afterwards the velocity's component along the applied
\* translation is 0 and its perpendicular component is unchanged; if the
\* velocity had no opposing component, the velocity is unchanged.
C14_BoxVelocity ==
  \A k \in DOMAIN calls : \A i \in 1..Len(EventsOf(k)) :
    BoxMove(k, i) =>
      IF RLt(VDot(MoveDir(k, i), VelBefore(k, i)), Zero)
      THEN /\ VDot(MoveDir(k, i), VelAfter(k, i)) = Zero
           /\ VCross(MoveDir(k, i), VelAfter(k, i))
                = VCross(MoveDir(k, i), VelBefore(k, i))
      ELSE VelAfter(k, i) = VelBefore(k, i)

C14_Witness ==
  \E k \in DOMAIN calls : \E i \in 1..Len(EventsOf(k)) :
    /\ BoxMove(k, i)
    /\ RLt(VDot(MoveDir(k, i), VelBefore(k, i)), Zero)
    /\ VCross(MoveDir(k, i), VelBefore(k, i)) # Zero
    /\ VDot(MoveDir(k, i), VelAfter(k, i)) = Zero
    /\ VelAfter(k, i) # VelBefore(k, i)

\* ------------------------------------------------------------------------
\* C15
\* ------------------------------------------------------------------------

\* call k is a RigidBody resolution of two distinct non-Passive bodies that
\* are moving apart along the contact normal
Separating(k) ==
  /\ strategy = "RigidBody"
  /\ ~SelfPair(k)
  /\ ~HasPassive(k)
  /\ RGt(TermsOf(k).rvNormal, Zero)

\* C15: in RigidBody resolution of a non-Passive, non-self pair whose
\* relative velocity along the contact normal is strictly positive, neither
\* body's velocity, angular velocity nor accumulated positional correction
\* changes.
C15_SeparatingUnchanged ==
  \A k \in DOMAIN calls :
    Separating(k) =>
      /\ BodyUnchanged(k, calls[k].contact.a)
      /\ BodyUnchanged(k, calls[k].contact.b)

C15_Witness ==
  \E k \in DOMAIN calls :
    /\ Separating(k)
    /\ TypeA(k) = "Active"
    /\ TypeB(k) = "Active"
    /\ Truthy(TermsOf(k).coefFriction)
    /\ Truthy(TermsOf(k).rvTangent)
    /\ BodyUnchanged(k, calls[k].contact.a)
    /\ BodyUnchanged(k, calls[k].contact.b)

\* ------------------------------------------------------------------------
\* C16
\* ------------------------------------------------------------------------

\* the bodies that take part in both contacts of a tick of two contacts
SharedBodies ==
  {calls[1].contact.a, calls[1].contact.b}
    \cap {calls[2].contact.a, calls[2].contact.b}

\* the tick resolved two RigidBody contacts that share exactly one body
SharedTick ==
  /\ TickDone
  /\ strategy = "RigidBody"
  /\ Len(calls) = 2
  /\ Cardinality(SharedBodies) = 1

\* the body the two contacts share
Shared == CHOOSE id \in SharedBodies : TRUE

\* the bodies as the contact of call j finds them when the contacts are
\* resolved in the order o
BodiesBefore(o, j) ==
  ResolveInOrder(calls[1].bodies,
                 SubSeq(o, 1, (CHOOSE p \in DOMAIN o : o[p] = j) - 1))

\* a RigidBody resolution of contact c on the bodies bs gets past the
\* self-pair, Passive and separating early returns
ImpulseApplied(bs, c) ==
  /\ c.a # c.b
  /\ ~isPassivePair(bs[c.a], bs[c.b])
  /\ ~isSeparating(contactTerms(bs, colliders, c).rvNormal)

\* each contact applies its impulse in every order or in none
SameBranches ==
  \A j \in DOMAIN calls : \A o1, o2 \in Orders :
    ImpulseApplied(BodiesBefore(o1, j), calls[j].contact)
      <=> ImpulseApplied(BodiesBefore(o2, j), calls[j].contact)

\* C16 as stated: two RigidBody contacts that share one body leave the
\* shared body with the same accumulated correction and the same velocity
\* in either resolution order.
C16_Original ==
  SharedTick =>
    \A o \in Orders :
      /\ ResolveInOrder(calls[1].bodies, o)[Shared].totalMtv
           = bodies[Shared].totalMtv
      /\ ResolveInOrder(calls[1].bodies, o)[Shared].vel = bodies[Shared].vel

\* C16, corrected: two RigidBody contacts that share one body leave the
\* shared body with the same accumulated correction in either resolution
\* order whenever each contact applies its impulse in both orders or in
\* neither.
C16_CorrectionAccumulates ==
  (SharedTick /\ SameBranches) =>
    \A o \in Orders :
      ResolveInOrder(calls[1].bodies, o)[Shared].totalMtv
        = bodies[Shared].totalMtv

\* both contacts gave the shared body a correction, and its final velocity
\* depends on the order
C16_Witness ==
  /\ SharedTick
  /\ SameBranches
  /\ \A k \in DOMAIN calls : Correction(k, Shared) # Vec(0, 0)
  /\ \A o \in Orders :
       ResolveInOrder(calls[1].bodies, o)[Shared].totalMtv
         = bodies[Shared].totalMtv
  /\ \E o \in Orders :
       ResolveInOrder(calls[1].bodies, o)[Shared].vel # bodies[Shared].vel

\* ------------------------------------------------------------------------
\* C17
\* ------------------------------------------------------------------------

\* C17: within one resolve call, every participant that receives both a
\* pre-collision and a post-collision event receives the same side in
\* both, and in every emitted event the side is the one derived from the
\* dominant axis of that event's own vector; under Box as under RigidBody.
\* Stated for the contacts of two distinct bodies.
C17_SidesConsistent ==
  \A k \in DOMAIN calls :
    \A i, j \in DOMAIN (IF SelfPair(k) THEN <<>> ELSE EventsOf(k)) :
      LET e == EventsOf(k)[i]
          f == EventsOf(k)[j]
      IN  /\ e.side = getSideFromVector(e.vec)
          /\ (/\ e.kind = "precollision"
              /\ f.kind = "postcollision"
              /\ e.self = f.self) => e.side = f.side

\* ------------------------------------------------------------------------
\* C18
\* ------------------------------------------------------------------------

\* the positional correction call k gave body id: its change of position
\* under Box, the correction it accumulated under RigidBody
Corrected(k, id) ==
  IF strategy = "Box" THEN Moved(k, id) ELSE Correction(k, id)

\* call k corrected one of the two distinct bodies of its contact
AnyCorrection(k) ==
  /\ strategy \in CollisionResolutionStrategy
  /\ ~SelfPair(k)
  /\ \/ Corrected(k, calls[k].contact.a) # Vec(0, 0)
     \/ Corrected(k, calls[k].contact.b) # Vec(0, 0)

\* C18: for a non-self pair, whenever resolve applies any positional
\* correction, the correction given to B minus the correction given to A
\* is the contact's MTV, A is corrected only along -mtv (by nothing, half
\* or all of it) and B only along +mtv, under both strategies.
C18_SignConvention ==
  \A k \in DOMAIN calls :
    AnyCorrection(k) =>
      LET c == calls[k].contact
      IN  /\ VSub(Corrected(k, c.b), Corrected(k, c.a)) = c.mtv
          /\ Corrected(k, c.a) \in
               {Vec(0, 0), VScale(c.mtv, RNeg(Half)), VNegate(c.mtv)}
          /\ Corrected(k, c.b) \in {Vec(0, 0), VScale(c.mtv, Half), c.mtv}

C18_Witness ==
  \E k \in DOMAIN calls :
    /\ AnyCorrection(k)
    /\ Corrected(k, calls[k].contact.a) = VScale(calls[k].contact.mtv, RNeg(Half))
    /\ Corrected(k, calls[k].contact.b) = VScale(calls[k].contact.mtv, Half)
    /\ calls[k].contact.mtv[1] # Zero
    /\ calls[k].contact.mtv[2] # Zero

====
